---- MODULE Spec2Model ----
(***************************************************************************)
(* Model of src/app.py: the RSS monitor loop (RSSMonitor), its feed        *)
(* checks, the pending batch and its flush, the registry refresh           *)
(* (GoogleSheetReader.get_rss_feeds), the module-level notifier functions, *)
(* the listener loop (TelegramBot.start) and main.  Time is a clock in     *)
(* seconds, advanced by the sleeps of the two loops and by the latency of  *)
(* a fetch.                                                                *)
(***************************************************************************)
EXTENDS Integers, Sequences, FiniteSets, TLC

----------------------------------------------------------------------------
(* Program constants *)

RSS_CHECK_INTERVAL == 600
SHEET_REFRESH_INTERVAL == 600
RSS_REQUEST_DELAY == 1
max_batch_size == 5
batch_timeout == 60
TITLE_PREFIX == 100
\* the sleeps of TelegramBot.start after a failed polling
READ_TIMEOUT_BACKOFF == 5
CONNECTION_ERROR_BACKOFF == 30
UNEXPECTED_ERROR_BACKOFF == 10

CATEGORIES ==
    {"License", "Sanction", "AML/CFT", "Regulatory",
     "Benchmark Exchange License Update", "Legal structure"}

----------------------------------------------------------------------------
(* Bounds of the model *)

\* time.time() when RSSMonitor is constructed (any value >= the refresh
\* interval stands for an epoch timestamp: last_sheet_check starts at 0)
StartTime == 1000
\* how long the clock runs past StartTime
Horizon == 850
\* the longest time one HTTP fetch of a feed takes (no timeout is set)
MaxLatency == 60
\* rows the spreadsheet range returns
MaxRows == 2
\* labels in one classifier response, when the flush is called on its own
MaxLabels == 2
\* labels in one classifier response, in the monitor loop
MaxLoopLabels == 1
\* registered chat ids
MaxChats == 3
\* entries pending when the feed check is called on its own
MaxPending == 2
\* entries pending when checks that find a new head are called in a row
MaxSweep == 6
\* rows of the sheet in the specification with a fair scheduler
MaxLiveRows == 1
\* a check_interval below the refresh interval, for a monitor constructed
\* with one (RSSMonitor(check_interval=...))
ShortCheckInterval == 500

MaxTime == StartTime + Horizon

----------------------------------------------------------------------------
(* Values *)

\* a missing key / attribute / HTML element (Python: KeyError, AttributeError, None)
Absent == "<absent>"
\* JSON null in a classifier response (Python None: falsy)
Null == "<null>"

\* cells of column B of the sheet; the first two contain 'http'
RssUrl == "http://feed.example/rss"
TelegramUrl == "https://t.me/s/channel"
NoteCell == "see notes"
Cells == {RssUrl, TelegramUrl, NoteCell}

\* 'http' in row[0].lower()
ContainsHttp(cell) == cell \in {RssUrl, TelegramUrl}
\* 't.me/s/' in feed_url
IsTelegramUrl(feed_url) == feed_url = TelegramUrl

FeedUrls == {c \in Cells : ContainsHttp(c)}

Min(a, b) == IF a <= b THEN a ELSE b

\* the head entry of a parsed feed, feed.entries[0]; any field may be missing
RssEntry(id, link, title, summary, description) ==
    [id |-> id, link |-> link, title |-> title, summary |-> summary,
     description |-> description]

RssEntries ==
    {RssEntry("id-a", "link-a", "Title a", "S", "D"),      \* identity: its id
     RssEntry(Absent, "link-b", "Title b", "", "D"),       \* identity: its link
     RssEntry("id-a", "link-a", Absent, "S", "D"),         \* no title
     RssEntry("id-a", Absent, "Title a", "S", "D"),        \* an id and no link
     RssEntry(Absent, Absent, "Title a", "S", "D")}        \* no id and no link

\* the first tgme_widget_message block of a channel page:
\*   link  = the tgme_widget_message_date anchor: Absent (no anchor),
\*           NoHref (an anchor without href) or its href
\*   text  = the tgme_widget_message_text div: Absent or its text
NoHref == "<nohref>"
ShortText == "short message"
LongText == "long message"
LongTextPrefix == "long message[:100]"
\* len(text)
TextLength(text) == IF text = LongText THEN 150 ELSE 13

TelegramMessages ==
    {[link |-> "t.me/channel/1", text |-> ShortText],
     [link |-> "t.me/channel/2", text |-> LongText],
     [link |-> NoHref, text |-> ShortText],
     [link |-> Absent, text |-> ShortText],
     [link |-> "t.me/channel/2", text |-> Absent]}

\* labels a classifier response may hold
Labels == {"License", "None", "Foo", Null}

\* chat ids of the destination file
Chats == 1..MaxChats

RECURSIVE SeqsUpTo(_, _)
SeqsUpTo(S, n) ==
    IF n = 0 THEN {<<>>}
    ELSE LET shorter == SeqsUpTo(S, n - 1)
         IN shorter \cup {Append(s, x) : s \in {t \in shorter : Len(t) = n - 1}, x \in S}

----------------------------------------------------------------------------
(* GoogleSheetReader.get_rss_feeds *)

RECURSIVE SelectHttpRows(_)
\* [row[0] for row in values if row and 'http' in row[0].lower()]
SelectHttpRows(values) ==
    IF values = <<>> THEN <<>>
    ELSE LET row == Head(values)
             rest == SelectHttpRows(Tail(values))
         IN IF row # <<>> /\ ContainsHttp(row[1]) THEN <<row[1]>> \o rest ELSE rest

\* what the Sheets API call does: "error" (any exception) or the rows of the range
SheetRows == {<<>>} \cup {<<c>> : c \in Cells}
SheetResponses ==
    {[status |-> "error"]} \cup
    {[status |-> "ok", values |-> v] : v \in SeqsUpTo(SheetRows, MaxRows)}

\* lines 65-76: the feeds of the sheet; on any exception the empty list
get_rss_feeds(response) ==
    IF response.status = "ok" THEN SelectHttpRows(response.values) ELSE <<>>

----------------------------------------------------------------------------
(* RSSMonitor._check_rss and RSSMonitor._parse_telegram_channel.            *)
(* Both return the monitor's state after the check:                         *)
(*   last_entries, pending_entries, and what the check did                  *)
(*   id     : the identity the check computed (Absent: none)                *)
(*   raised : "none", "request" (caught at line 195) or "error" (caught at  *)
(*            line 197 / 309)                                               *)

CheckOutcome(le, pe, id, raised) ==
    [last_entries |-> le, pending_entries |-> pe, id |-> id, raised |-> raised]

\* the test without its second half: only a feed never seen has a new entry
IsNewEntryColdStartOnly(le, feed_url, entry_id) == le[feed_url] = Absent

\* the test always true: every head entry counts as new
IsNewEntryAlways(le, feed_url, entry_id) == TRUE

\* feed_url not in self.last_entries or self.last_entries[feed_url] != entry_id
IsNewEntry(le, feed_url, entry_id) == le[feed_url] # entry_id

\* latest_entry.get('summary', '') or latest_entry.get('description', '')
EntryContent(entry) == IF entry.summary # "" THEN entry.summary ELSE entry.description

\* content[:100]
TitleOf(text) == IF TextLength(text) <= TITLE_PREFIX THEN text ELSE LongTextPrefix

\* lines 179-193, with the head entry of the parsed feed
CheckLatestEntry(le, pe, feed_url, latest_entry) ==
    IF latest_entry.id = Absent /\ latest_entry.link = Absent
    THEN \* line 181: latest_entry.link raises AttributeError
         CheckOutcome(le, pe, Absent, "error")
    ELSE LET entry_id == IF latest_entry.id # Absent THEN latest_entry.id
                         ELSE latest_entry.link
         IN IF ~IsNewEntry(le, feed_url, entry_id)
            THEN CheckOutcome(le, pe, entry_id, "none")
            ELSE LET le2 == [le EXCEPT ![feed_url] = entry_id]   \* line 184
                 IN IF latest_entry.title = Absent \/ latest_entry.link = Absent
                    THEN \* lines 189/191 raise AttributeError after line 184 ran
                         CheckOutcome(le2, pe, entry_id, "error")
                    ELSE CheckOutcome(le2,
                             Append(pe, [title |-> latest_entry.title,
                                         content |-> EntryContent(latest_entry),
                                         link |-> latest_entry.link,
                                         feed_url |-> feed_url,
                                         is_telegram |-> FALSE]),
                             entry_id, "none")

\* lines 279-310; messages is the list of message blocks of the page
parse_telegram_channel(le, pe, feed_url, messages) ==
    IF messages = <<>> THEN CheckOutcome(le, pe, Absent, "none")
    ELSE LET latest_message == messages[1]
         IN IF latest_message.link = Absent \/ latest_message.text = Absent
            THEN CheckOutcome(le, pe, Absent, "none")
            ELSE IF latest_message.link = NoHref
            THEN \* message_link['href'] raises KeyError
                 CheckOutcome(le, pe, Absent, "error")
            ELSE LET entry_id == latest_message.link
                 IN IF ~IsNewEntry(le, feed_url, entry_id)
                    THEN CheckOutcome(le, pe, entry_id, "none")
                    ELSE CheckOutcome([le EXCEPT ![feed_url] = entry_id],
                             Append(pe, [title |-> TitleOf(latest_message.text),
                                         content |-> latest_message.text,
                                         link |-> entry_id,
                                         feed_url |-> feed_url,
                                         is_telegram |-> TRUE]),
                             entry_id, "none")

\* what the network and the parsers give one check of a feed
FetchResults == {"ok", "connection_error", "http_error"}
ParsedFeeds == [bozo : BOOLEAN, entries : {<<>>} \cup {<<e>> : e \in RssEntries}]
ChannelPages == {<<>>} \cup {<<m>> : m \in TelegramMessages}

\* a check that forgets the stored identity of a feed whose fetch fails
check_rss_forgets_on_error(le, pe, feed_url, fetch, feed, page) ==
    IF fetch # "ok"
    THEN CheckOutcome([le EXCEPT ![feed_url] = Absent], pe, Absent, "request")
    ELSE IF feed.bozo /\ IsTelegramUrl(feed_url)
    THEN parse_telegram_channel(le, pe, feed_url, page)
    ELSE IF feed.entries = <<>>
    THEN CheckOutcome(le, pe, Absent, "none")
    ELSE CheckLatestEntry(le, pe, feed_url, feed.entries[1])

\* lines 138-198
check_rss(le, pe, feed_url, fetch, feed, page) ==
    IF fetch # "ok"
    THEN \* requests.get / raise_for_status raise a RequestException
         CheckOutcome(le, pe, Absent, "request")
    ELSE IF feed.bozo /\ IsTelegramUrl(feed_url)
    THEN parse_telegram_channel(le, pe, feed_url, page)
    ELSE IF feed.bozo /\ feed.entries = <<>>
    THEN CheckOutcome(le, pe, Absent, "none")
    ELSE IF feed.entries = <<>>
    THEN CheckOutcome(le, pe, Absent, "none")
    ELSE CheckLatestEntry(le, pe, feed_url, feed.entries[1])

----------------------------------------------------------------------------
(* The notifier: module-level send_telegram_message, lines 347-356 *)

\* one bot.send_message(chat_id, message): it raises for the chats in failing
SendAttempt(chat_id, message, failing) ==
    [chat_id |-> chat_id, message |-> message, ok |-> chat_id \notin failing]

\* the loop without its try: the first failure ends it
send_telegram_message_unguarded(message, chat_ids, failing) ==
    LET failed == {i \in 1..Len(chat_ids) : chat_ids[i] \in failing}
        last == IF failed = {} THEN Len(chat_ids)
                ELSE CHOOSE i \in failed : \A j \in failed : i <= j
    IN [i \in 1..last |-> SendAttempt(chat_ids[i], message, failing)]

\* for chat_id in chat_ids: try: bot.send_message(...) except Exception: log
send_telegram_message(message, chat_ids, failing) ==
    [i \in 1..Len(chat_ids) |-> SendAttempt(chat_ids[i], message, failing)]

----------------------------------------------------------------------------
(* RSSMonitor._process_pending_entries, lines 200-250 *)

\* the attributes an RSSMonitor instance has: the fields __init__ sets
\* (lines 88-99) and the methods of the class (lines 87-310)
RSSMonitorAttributes ==
    {"check_interval", "sheet_refresh_interval", "last_entries", "is_running",
     "monitor_thread", "sheet_reader", "feeds", "last_sheet_check",
     "pending_entries", "max_batch_size", "batch_timeout", "last_batch_time",
     "start_monitoring", "stop_monitoring", "_monitor_loop", "_check_rss",
     "_process_pending_entries", "categorize_with_chatgpt",
     "_parse_telegram_channel"}

\* what the classification request gives: the request raises, the content is
\* not JSON, or the content is a JSON array of labels
ClassifierResponsesUpTo(n) ==
    {[status |-> "request_error"], [status |-> "unparseable"]} \cup
    {[status |-> "ok", categories |-> c] : c \in SeqsUpTo(Labels, n)}

ClassifierResponses == ClassifierResponsesUpTo(MaxLabels)
LoopClassifierResponses == ClassifierResponsesUpTo(MaxLoopLabels)

\* if category and category != 'None'
PassesCategoryGuard(category) == category # Null /\ category # "" /\ category # "None"

\* lines 235-241
FormatMessage(entry, category, time) ==
    [category |-> category, title |-> entry.title, link |-> entry.link,
     published |-> time]

\* what one flush did:
\*   built     : the messages formatted, each followed by the statement of line 242
\*   sent      : the messages send_telegram_message was called with
\*   delivered : the bot.send_message attempts
\*   raised    : an exception reached line 245
FlushOutcome(built, sent, delivered, raised) ==
    [built |-> built, sent |-> sent, delivered |-> delivered, raised |-> raised]

RECURSIVE NotifyLoop(_, _, _, _, _, _, _)
\* lines 233-243: for entry, category in zip(self.pending_entries, categories)
NotifyLoop(entries, categories, i, chat_ids, failing, time, acc) ==
    IF i > Min(Len(entries), Len(categories)) THEN acc
    ELSE IF ~PassesCategoryGuard(categories[i])
    THEN NotifyLoop(entries, categories, i + 1, chat_ids, failing, time, acc)
    ELSE LET message == FormatMessage(entries[i], categories[i], time)
         IN IF "send_telegram_message" \in RSSMonitorAttributes
            THEN NotifyLoop(entries, categories, i + 1, chat_ids, failing, time,
                     FlushOutcome(Append(acc.built, message),
                                  Append(acc.sent, message),
                                  acc.delivered \o
                                      send_telegram_message(message, chat_ids, failing),
                                  FALSE))
            ELSE \* line 242: self.send_telegram_message raises AttributeError
                 FlushOutcome(Append(acc.built, message), acc.sent, acc.delivered, TRUE)

\* lines 205-246: the try block of the flush
ClassifyAndNotify(entries, response, chat_ids, failing, time) ==
    IF response.status # "ok"
    THEN FlushOutcome(<<>>, <<>>, <<>>, TRUE)
    ELSE NotifyLoop(entries, response.categories, 1, chat_ids, failing, time,
                    FlushOutcome(<<>>, <<>>, <<>>, FALSE))

\* lines 247-250: the finally block: the batch and the timer after the flush
AfterFlush(entries, time) == [pending_entries |-> <<>>, last_batch_time |-> time]

\* the test without its timeout half: only a full batch is flushed
DueForFlushWhenFull(pe, time_read, batch_time) == Len(pe) >= max_batch_size

\* lines 129-130
DueForFlush(pe, current_time, last_batch_time) ==
    \/ Len(pe) >= max_batch_size
    \/ (pe # <<>> /\ current_time - last_batch_time >= batch_timeout)

----------------------------------------------------------------------------
(* RSSMonitor.categorize_with_chatgpt, lines 252-277 *)

SingleResponses == {[status |-> "request_error"]} \cup
                   {[status |-> "ok", content |-> c] : c \in Labels \ {Null}}

\* the category, or Absent for Python's None
categorize_with_chatgpt(response) ==
    IF response.status # "ok" THEN Absent
    ELSE IF response.content = "None" \/ response.content \notin CATEGORIES THEN Absent
    ELSE response.content

----------------------------------------------------------------------------
(* State *)

VARIABLES
    now,              \* time.time()
    is_running,       \* RSSMonitor.is_running
    pc,               \* where the monitor thread is in _monitor_loop
    feeds,            \* RSSMonitor.feeds
    last_sheet_check, \* RSSMonitor.last_sheet_check
    last_entries,     \* RSSMonitor.last_entries (Absent: no key for the feed)
    pending_entries,  \* RSSMonitor.pending_entries
    last_batch_time,  \* RSSMonitor.last_batch_time
    current_time,     \* the local current_time of the iteration in progress
    idx,              \* position of the sweep in self.feeds (1-based)
    chat_ids,         \* the lines of chat_ids.txt
    event,            \* what the latest operation did (observation only)
    emitted,          \* per feed: the entries appended by the checks that
                      \* computed the identity last_entries holds (observation only)
    check_interval,   \* RSSMonitor.check_interval
    main_pc,          \* where the main thread is in main / TelegramBot.start
    carried           \* the entries that were pending when the iteration in
                      \* progress began (observation only)

vars == <<now, is_running, pc, feeds, last_sheet_check, last_entries,
          pending_entries, last_batch_time, current_time, idx, chat_ids,
          event, emitted, check_interval, main_pc, carried>>

NoEvent == [op |-> "none"]

\* RSSMonitor.__init__, lines 87-100, and an absent chat_ids.txt
InitWith(interval) ==
    /\ check_interval = interval
    /\ main_pc = "init"
    /\ carried = 0
    /\ now = StartTime
    /\ is_running = FALSE
    /\ pc = "new"
    /\ feeds = <<>>
    /\ last_sheet_check = 0
    /\ last_entries = [f \in FeedUrls |-> Absent]
    /\ pending_entries = <<>>
    /\ last_batch_time = StartTime
    /\ current_time = 0
    /\ idx = 1
    /\ chat_ids = <<>>
    /\ event = NoEvent
    /\ emitted = [f \in FeedUrls |-> 0]

\* line 379: main constructs RSSMonitor(check_interval=RSS_CHECK_INTERVAL)
Init == InitWith(RSS_CHECK_INTERVAL)

\* a monitor constructed with a check_interval below the refresh interval
ShortIntervalInit == InitWith(ShortCheckInterval)

----------------------------------------------------------------------------
(* The monitor thread *)

\* lines 385-389 and 102-107: main starts the monitor thread, then the listener
StartMonitoring ==
    /\ pc = "new"
    /\ main_pc = "init"
    /\ is_running' = TRUE
    /\ pc' = "top"
    /\ main_pc' = "polling"
    /\ UNCHANGED <<now, feeds, last_sheet_check, last_entries, pending_entries,
                   last_batch_time, current_time, idx, chat_ids, event, emitted,
                   check_interval, carried>>

\* lines 390-392 and 109-111: a KeyboardInterrupt ends the listener, main
\* calls stop_monitoring, which clears the flag and waits for the thread
StopMonitoring ==
    /\ main_pc = "polling"
    /\ is_running
    /\ is_running' = FALSE
    /\ main_pc' = "joining"
    /\ UNCHANGED <<now, pc, feeds, last_sheet_check, last_entries, pending_entries,
                   last_batch_time, current_time, idx, chat_ids, event, emitted,
                   check_interval, carried>>

\* lines 111-113: self.monitor_thread.join() returns once the thread has ended
JoinReturns ==
    /\ main_pc = "joining"
    /\ pc = "exited"
    /\ main_pc' = "done"
    /\ UNCHANGED <<now, is_running, pc, feeds, last_sheet_check, last_entries,
                   pending_entries, last_batch_time, current_time, idx, chat_ids,
                   event, emitted, check_interval, carried>>

\* a loop whose test is always true
WhileTrue(running) == "iter"

\* line 116: while self.is_running
WhileTest(running) == IF running THEN "iter" ELSE "exited"

LoopTest ==
    /\ pc = "top"
    /\ pc' = WhileTest(is_running)
    /\ UNCHANGED <<now, is_running, feeds, last_sheet_check, last_entries,
                   pending_entries, last_batch_time, current_time, idx, chat_ids,
                   event, emitted, check_interval, main_pc, carried>>

\* a refresh in every iteration
RefreshAlways(time, last_check) == TRUE

\* line 120
RefreshDue(time, last_check) == time - last_check >= SHEET_REFRESH_INTERVAL

\* line 121: self.feeds after a due refresh, given what get_rss_feeds returned
RefreshedFeeds(old_feeds, returned) == returned

\* self.sheet_reader.get_rss_feeds() for every response of the sheet
SheetReads ==
    {[status |-> response.status, feeds |-> get_rss_feeds(response)] :
        response \in SheetResponses}

\* lines 118-123
RefreshCheck ==
    /\ pc = "iter"
    /\ current_time' = now
    /\ IF RefreshDue(now, last_sheet_check)
       THEN \E read \in SheetReads :
               /\ feeds' = RefreshedFeeds(feeds, read.feeds)
               /\ last_sheet_check' = now
               /\ event' = [op |-> "refresh", due |-> TRUE, status |-> read.status]
       ELSE /\ UNCHANGED <<feeds, last_sheet_check>>
            /\ event' = [op |-> "refresh", due |-> FALSE, status |-> "skipped"]
    /\ idx' = 1
    /\ pc' = IF feeds' = <<>> THEN "batch" ELSE "sweep"
    /\ carried' = Len(pending_entries)
    /\ UNCHANGED <<now, is_running, last_entries, pending_entries, last_batch_time,
                   chat_ids, emitted, check_interval, main_pc>>

\* what the network and the parsers give one check of feed_url, and how long
\* the fetch takes: a connection that fails may fail late; a channel page is
\* never a well-formed feed
CheckInputs(feed_url) ==
    {[fetch |-> "http_error", latency |-> 0,
      feed |-> [bozo |-> FALSE, entries |-> <<>>], page |-> <<>>]}
    \cup
    {[fetch |-> "connection_error", latency |-> l,
      feed |-> [bozo |-> FALSE, entries |-> <<>>], page |-> <<>>] :
        l \in {0, MaxLatency}}
    \cup
    {[fetch |-> "ok", latency |-> 0,
      feed |-> [bozo |-> TRUE, entries |-> <<>>], page |-> p] :
        p \in {q \in ChannelPages : IsTelegramUrl(feed_url)}}
    \cup
    {[fetch |-> "ok", latency |-> 0, feed |-> fd, page |-> <<>>] :
        fd \in {g \in ParsedFeeds : ~IsTelegramUrl(feed_url)}}

\* self._check_rss(feed_url) with one input: the monitor's state after it, how
\* long it took, and the observations
CheckEffect(le, pe, em, feed_url, input) ==
    LET result == check_rss(le, pe, feed_url, input.fetch, input.feed, input.page)
        appended == Len(result.pending_entries) - Len(pe)
    IN [last_entries |-> result.last_entries,
        pending_entries |-> result.pending_entries,
        latency |-> input.latency,
        event |-> [op |-> "check", feed_url |-> feed_url, fetch |-> input.fetch,
                   id |-> result.id, raised |-> result.raised],
        emitted |-> [em EXCEPT ![feed_url] =
                        IF result.last_entries[feed_url] # le[feed_url]
                        THEN appended ELSE @ + appended]]

CheckEffects(le, pe, em, feed_url) ==
    {CheckEffect(le, pe, em, feed_url, input) : input \in CheckInputs(feed_url)}

\* the clock runs to MaxTime while the loop is set to run on; a loop told
\* to stop has at most the rest of one iteration left
WithinHorizon(running, time) == running => time <= MaxTime

\* a sweep that a check ending in an exception ends
AfterCheckAbortOnError(i, n, raised) ==
    IF raised # "none" THEN "sleep" ELSE IF i = n THEN "batch" ELSE "sweep"

\* lines 125-127: the for loop goes on to the next feed, or ends after the
\* last; _check_rss catches its exceptions, so none reaches the loop
AfterCheck(i, n, raised) == IF i = n THEN "batch" ELSE "sweep"

\* lines 125-127: one turn of the sweep: self._check_rss(feed_url), then the delay
CheckFeed ==
    /\ pc = "sweep"
    /\ idx <= Len(feeds)
    /\ \E effect \in CheckEffects(last_entries, pending_entries, emitted, feeds[idx]) :
          /\ WithinHorizon(is_running, now + effect.latency + RSS_REQUEST_DELAY)
          /\ now' = now + effect.latency + RSS_REQUEST_DELAY
          /\ last_entries' = effect.last_entries
          /\ pending_entries' = effect.pending_entries
          /\ event' = effect.event
          /\ emitted' = effect.emitted
          /\ pc' = AfterCheck(idx, Len(feeds), effect.event.raised)
    /\ idx' = idx + 1
    /\ UNCHANGED <<is_running, feeds, last_sheet_check, last_batch_time,
                   current_time, chat_ids, check_interval, main_pc, carried>>

\* the flush with its cleanup at the end of the try block instead of in a
\* finally block: an exception skips it
ProcessPendingEntriesNoFinally(entries, batch_time, response, ids, failing, time) ==
    LET outcome == ClassifyAndNotify(entries, response, ids, failing, time)
    IN IF entries = <<>> \/ outcome.raised
       THEN [pending_entries |-> entries, last_batch_time |-> batch_time,
             outcome |-> outcome]
       ELSE [pending_entries |-> <<>>, last_batch_time |-> time, outcome |-> outcome]

\* lines 200-250: _process_pending_entries
ProcessPendingEntries(entries, batch_time, response, ids, failing, time) ==
    IF entries = <<>>
    THEN \* lines 202-203: nothing to do
         [pending_entries |-> entries, last_batch_time |-> batch_time,
          outcome |-> FlushOutcome(<<>>, <<>>, <<>>, FALSE)]
    ELSE LET after == AfterFlush(entries, time)
         IN [pending_entries |-> after.pending_entries,
             last_batch_time |-> after.last_batch_time,
             outcome |-> ClassifyAndNotify(entries, response, ids, failing, time)]

\* the chats a bot.send_message may fail for
Destinations(ids) == {ids[i] : i \in 1..Len(ids)}

\* lines 129-131 with one response of the classifier: what the step sets
BatchEffect(pe, time_read, batch_time, ids, time, response, failing) ==
    IF DueForFlush(pe, time_read, batch_time)
    THEN LET flush == ProcessPendingEntries(pe, batch_time, response, ids, failing, time)
         IN [pending_entries |-> flush.pending_entries,
             last_batch_time |-> flush.last_batch_time,
             event |-> [op |-> "batch", flushed |-> TRUE, status |-> response.status,
                        raised |-> flush.outcome.raised]]
    ELSE [pending_entries |-> pe, last_batch_time |-> batch_time,
          event |-> [op |-> "batch", flushed |-> FALSE, status |-> "skipped",
                     raised |-> FALSE]]

\* lines 129-131
BatchCheck ==
    /\ pc = "batch"
    /\ \E effect \in {BatchEffect(pending_entries, current_time, last_batch_time,
                                  chat_ids, now, response, failing) :
                         response \in LoopClassifierResponses,
                         failing \in SUBSET Destinations(chat_ids)} :
          /\ pending_entries' = effect.pending_entries
          /\ last_batch_time' = effect.last_batch_time
          /\ event' = effect.event
    /\ pc' = "sleep"
    /\ UNCHANGED <<now, is_running, feeds, last_sheet_check, last_entries,
                   current_time, idx, chat_ids, emitted, check_interval, main_pc,
                   carried>>

\* line 136: min(self.check_interval, self.sheet_refresh_interval)
SleepTime(interval) == Min(interval, SHEET_REFRESH_INTERVAL)

\* line 136
Sleep ==
    /\ pc = "sleep"
    /\ WithinHorizon(is_running, now + SleepTime(check_interval))
    /\ now' = now + SleepTime(check_interval)
    /\ pc' = "top"
    /\ event' = [op |-> "sleep"]
    /\ UNCHANGED <<is_running, feeds, last_sheet_check, last_entries,
                   pending_entries, last_batch_time, current_time, idx, chat_ids,
                   emitted, check_interval, main_pc, carried>>

\* a loop without its try: the exception ends the thread
AfterExceptionUncaught(at) == "exited"

\* lines 133-136: an exception raised at a step of the iteration is caught at
\* the loop boundary and logged; the sleep follows
AfterException(at) == "sleep"

\* an exception (any subclass of Exception, a MemoryError for one) raised in
\* the try block of the iteration outside the handlers of the methods it calls
IterationRaises ==
    /\ pc \in {"iter", "sweep", "batch"}
    /\ pc' = AfterException(pc)
    /\ event' = [op |-> "raise", at |-> pc]
    /\ UNCHANGED <<now, is_running, feeds, last_sheet_check, last_entries,
                   pending_entries, last_batch_time, current_time, idx, chat_ids,
                   emitted, check_interval, main_pc, carried>>

----------------------------------------------------------------------------
(* The methods of the monitor and the module-level functions, called on     *)
(* their own                                                                *)

\* self._check_rss(feed_url), for a feed whose check finds a new head entry:
\* the calls of one sweep over a long feed list, or of sweeps whose batch
\* check does not flush
CheckRssNewHead ==
    /\ Len(pending_entries) < MaxSweep
    /\ \E feed_url \in FeedUrls :
          \E effect \in {c \in CheckEffects(last_entries, pending_entries, emitted,
                                            feed_url) :
                            Len(c.pending_entries) > Len(pending_entries)} :
             /\ last_entries' = effect.last_entries
             /\ pending_entries' = effect.pending_entries
             /\ event' = effect.event
             /\ emitted' = effect.emitted
    /\ UNCHANGED <<now, is_running, pc, feeds, last_sheet_check, last_batch_time,
                   current_time, idx, chat_ids, check_interval, main_pc, carried>>

\* self._check_rss(feed_url)
CheckRssCall ==
    /\ Len(pending_entries) < MaxPending
    /\ \E feed_url \in FeedUrls :
          \E effect \in CheckEffects(last_entries, pending_entries, emitted, feed_url) :
             /\ last_entries' = effect.last_entries
             /\ pending_entries' = effect.pending_entries
             /\ event' = effect.event
             /\ emitted' = effect.emitted
    /\ UNCHANGED <<now, is_running, pc, feeds, last_sheet_check, last_batch_time,
                   current_time, idx, chat_ids, check_interval, main_pc, carried>>

\* self._process_pending_entries()
ProcessPendingEntriesCall ==
    /\ \E response \in ClassifierResponses, failing \in SUBSET Destinations(chat_ids) :
          LET flush == ProcessPendingEntries(pending_entries, last_batch_time,
                                             response, chat_ids, failing, now)
          IN /\ pending_entries' = flush.pending_entries
             /\ last_batch_time' = flush.last_batch_time
             /\ event' = [op |-> "flush", batch |-> pending_entries,
                          response |-> response, outcome |-> flush.outcome]
    /\ UNCHANGED <<now, is_running, pc, feeds, last_sheet_check, last_entries,
                   current_time, idx, chat_ids, emitted, check_interval, main_pc,
                   carried>>

ChatTypes == {"group", "supergroup", "private"}

\* the registration without the test that the chat is not in the file yet
collect_chat_id_unchecked(ids, chat_id, chat_type) ==
    IF chat_type \in {"group", "supergroup"} THEN Append(ids, chat_id) ELSE ids

\* lines 358-373: chat_ids.txt after collect_chat_id(message)
collect_chat_id(ids, chat_id, chat_type) ==
    IF chat_type \in {"group", "supergroup"} /\ \A i \in 1..Len(ids) : ids[i] # chat_id
    THEN Append(ids, chat_id)
    ELSE ids

CollectChatId ==
    /\ \E chat_id \in Chats, chat_type \in ChatTypes :
          /\ chat_ids' = collect_chat_id(chat_ids, chat_id, chat_type)
          /\ event' = [op |-> "collect", chat_id |-> chat_id, chat_type |-> chat_type]
    /\ UNCHANGED <<now, is_running, pc, feeds, last_sheet_check, last_entries,
                   pending_entries, last_batch_time, current_time, idx, emitted,
                   check_interval, main_pc, carried>>

Messages ==
    {FormatMessage([title |-> "Title a", link |-> "link-a"], c, StartTime) :
        c \in {"License", "Sanction"}}

\* send_telegram_message(message)
SendTelegramMessage ==
    /\ \E message \in Messages, failing \in SUBSET Destinations(chat_ids) :
          event' = [op |-> "send", chat_ids |-> chat_ids, failing |-> failing,
                    attempts |-> send_telegram_message(message, chat_ids, failing)]
    /\ UNCHANGED <<now, is_running, pc, feeds, last_sheet_check, last_entries,
                   pending_entries, last_batch_time, current_time, idx, chat_ids,
                   emitted, check_interval, main_pc, carried>>

\* self.categorize_with_chatgpt(title, content)
CategorizeWithChatgpt ==
    /\ \E response \in SingleResponses :
          event' = [op |-> "categorize", response |-> response,
                    category |-> categorize_with_chatgpt(response)]
    /\ UNCHANGED <<now, is_running, pc, feeds, last_sheet_check, last_entries,
                   pending_entries, last_batch_time, current_time, idx, chat_ids,
                   emitted, check_interval, main_pc, carried>>

----------------------------------------------------------------------------
(* TelegramBot.start, lines 320-334, run by the main thread *)

\* how self.bot.infinity_polling(...) ends: it returns, or it raises
PollingEnds ==
    {"returned", "read_timeout", "connection_error", "unexpected_error",
     "keyboard_interrupt"}

\* the listener and its sleep after polling ended
StartOutcome(next_pc, backoff) == [pc |-> next_pc, backoff |-> backoff]

\* a listener whose handler for a connection error lets it through
start_reraises_connection_error(ending) ==
    IF ending = "read_timeout" THEN StartOutcome("polling", READ_TIMEOUT_BACKOFF)
    ELSE IF ending = "connection_error" THEN StartOutcome("failed", 0)
    ELSE IF ending = "unexpected_error"
    THEN StartOutcome("polling", UNEXPECTED_ERROR_BACKOFF)
    ELSE IF ending = "keyboard_interrupt" THEN StartOutcome("interrupted", 0)
    ELSE StartOutcome("polling", 0)

\* lines 322-334: one turn of while True
start(ending) ==
    IF ending = "read_timeout"
    THEN \* lines 326-328
         StartOutcome("polling", READ_TIMEOUT_BACKOFF)
    ELSE IF ending = "connection_error"
    THEN \* lines 329-331
         StartOutcome("polling", CONNECTION_ERROR_BACKOFF)
    ELSE IF ending = "unexpected_error"
    THEN \* lines 332-334
         StartOutcome("polling", UNEXPECTED_ERROR_BACKOFF)
    ELSE IF ending = "keyboard_interrupt"
    THEN \* not an Exception: it leaves start and reaches main, line 390
         StartOutcome("interrupted", 0)
    ELSE \* infinity_polling returned: the loop calls it again
         StartOutcome("polling", 0)

\* one polling of the listener and what follows it
Polling ==
    /\ main_pc = "polling"
    /\ \E ending \in PollingEnds :
          LET outcome == start(ending)
          IN /\ now + outcome.backoff <= MaxTime
             /\ now' = now + outcome.backoff
             /\ main_pc' = outcome.pc
             /\ event' = [op |-> "polling", ending |-> ending,
                          backoff |-> outcome.backoff]
    /\ UNCHANGED <<is_running, pc, feeds, last_sheet_check, last_entries,
                   pending_entries, last_batch_time, current_time, idx, chat_ids,
                   emitted, check_interval, carried>>

\* lines 390-392 and 109-111: main handles the KeyboardInterrupt
MainStops ==
    /\ main_pc = "interrupted"
    /\ is_running' = FALSE
    /\ main_pc' = "joining"
    /\ UNCHANGED <<now, pc, feeds, last_sheet_check, last_entries, pending_entries,
                   last_batch_time, current_time, idx, chat_ids, event, emitted,
                   check_interval, carried>>

----------------------------------------------------------------------------
(* Specifications *)

\* the monitor thread, its start and its stop
Next ==
    \/ StartMonitoring
    \/ StopMonitoring
    \/ JoinReturns
    \/ LoopTest
    \/ RefreshCheck
    \/ CheckFeed
    \/ BatchCheck
    \/ Sleep

Spec == Init /\ [][Next]_vars

\* lines 118-123 on a sheet of at most MaxLiveRows feeds
ShortSheetRefresh == RefreshCheck /\ Len(feeds') <= MaxLiveRows

\* the steps of the monitor thread
MonitorStep == LoopTest \/ ShortSheetRefresh \/ CheckFeed \/ BatchCheck \/ Sleep

LiveNext ==
    \/ StartMonitoring
    \/ StopMonitoring
    \/ JoinReturns
    \/ LoopTest
    \/ ShortSheetRefresh
    \/ CheckFeed
    \/ BatchCheck
    \/ Sleep

\* the monitor with a scheduler that lets a thread that can run do so: every
\* external call of the thread returns, and a join whose thread has ended returns
LiveSpec ==
    /\ Init
    /\ [][LiveNext]_vars
    /\ WF_vars(MonitorStep)
    /\ WF_vars(JoinReturns)

\* the monitor thread of a monitor constructed with the short check_interval
ShortIntervalSpec == ShortIntervalInit /\ [][Next]_vars

\* the monitor thread with exceptions that reach the loop boundary
FaultNext ==
    \/ Next
    \/ IterationRaises

FaultSpec == Init /\ [][FaultNext]_vars

\* the feed check, the flush and the single-entry classifier of the monitor,
\* called in any order
MethodNext ==
    \/ CheckRssCall
    \/ ProcessPendingEntriesCall
    \/ CategorizeWithChatgpt

MethodSpec == Init /\ [][MethodNext]_vars

\* the notifier and the registration of chats
NotifierNext ==
    \/ CollectChatId
    \/ SendTelegramMessage

NotifierSpec == Init /\ [][NotifierNext]_vars

\* feed checks that each find a new head, and the flush
SweepNext ==
    \/ CheckRssNewHead
    \/ ProcessPendingEntriesCall

SweepSpec == Init /\ [][SweepNext]_vars

\* main: the start of the monitor, then the listener loop until an interrupt
ListenerNext ==
    \/ StartMonitoring
    \/ Polling
    \/ MainStops

ListenerSpec == Init /\ [][ListenerNext]_vars

----------------------------------------------------------------------------
(* Properties *)

\* the steps of the monitor thread
CheckStep == pc = "sweep" /\ idx' = idx + 1
BatchStep == pc = "batch" /\ pc' = "sleep"
RefreshStep == pc = "iter" /\ pc' # "iter"

Last(s) == s[Len(s)]

\* C1: a check of feed F that ends without an exception and computes an
\* identity different from last_entries[F] (or F has none stored) appends
\* exactly one entry, for F, to pending_entries and stores the identity.
C1_NewIdentityEmitsOnce ==
    [][(/\ CheckStep
        /\ event'.raised = "none"
        /\ event'.id # Absent
        /\ event'.id # last_entries[event'.feed_url])
       => (/\ Len(pending_entries') = Len(pending_entries) + 1
           /\ SubSeq(pending_entries', 1, Len(pending_entries)) = pending_entries
           /\ Last(pending_entries').feed_url = event'.feed_url
           /\ last_entries' =
                 [last_entries EXCEPT ![event'.feed_url] = event'.id])]_vars

\* two entries in a row for the same feed: its identity changed between two
\* successful checks
C1_Witness ==
    /\ event.op = "check"
    /\ event.raised = "none"
    /\ event.id # Absent
    /\ Len(pending_entries) >= 2
    /\ Last(pending_entries).feed_url = event.feed_url
    /\ pending_entries[Len(pending_entries) - 1].feed_url = event.feed_url
    /\ last_entries[event.feed_url] = event.id

\* C2: over the checks of a feed that computed the identity last_entries
\* holds for it (the one that stored it and every repeat while the head is
\* unchanged), exactly one entry was appended.
C2_UnchangedHeadEmitsOnce ==
    \A f \in FeedUrls : last_entries[f] # Absent => emitted[f] = 1

\* C3: the BatchCheck step flushes if and only if the batch is full, or is
\* non-empty and the time since the last flush, read at the step, is at
\* least batch_timeout.
C3_FlushIffDueAtCheck ==
    [][BatchStep =>
        (event'.flushed <=>
            (\/ Len(pending_entries) >= max_batch_size
             \/ (pending_entries # <<>> /\ now - last_batch_time >= batch_timeout)))]_vars

\* C4: a flush leaves pending_entries empty and last_batch_time at the
\* current time, whatever the classifier answered and whether or not an
\* exception was raised.
C4_FlushClearsBatch ==
    [][(BatchStep /\ event'.flushed)
       => (pending_entries' = <<>> /\ last_batch_time' = now')]_vars

\* a flush whose try block ended in an exception, the batch gone and the
\* timer at the time of the flush
C4_Witness ==
    /\ event.op = "batch"
    /\ event.flushed
    /\ event.raised
    /\ pending_entries = <<>>
    /\ last_batch_time = now
    /\ last_batch_time > StartTime

\* the labels of a response that is a list, else none
LabelsOf(response) == IF response.status = "ok" THEN response.categories ELSE <<>>

C6_OneNotificationPerCategory ==
    (/\ event.op = "flush"
     /\ event.response.status = "ok"
     /\ Len(LabelsOf(event.response)) = Len(event.batch))
    => LET labelled == {i \in 1..Len(event.batch) :
                           event.response.categories[i] \notin {"None", Null}}
       IN /\ Len(event.outcome.sent) = Cardinality(labelled)
          /\ \A k \in 1..Len(event.outcome.sent) :
                \E i \in labelled :
                   /\ Cardinality({j \in labelled : j <= i}) = k
                   /\ event.outcome.sent[k].title = event.batch[i].title
                   /\ event.outcome.sent[k].category = event.response.categories[i]

C8_EveryDestinationAttempted ==
    event.op = "send" =>
        /\ Len(event.attempts) = Len(event.chat_ids)
        /\ \A i \in 1..Len(event.chat_ids) :
              /\ event.attempts[i].chat_id = event.chat_ids[i]
              /\ event.attempts[i].ok <=> event.chat_ids[i] \notin event.failing

\* a failed delivery followed by a successful one
C8_Witness ==
    /\ event.op = "send"
    /\ Len(event.attempts) >= 3
    /\ event.attempts[1].ok
    /\ ~event.attempts[2].ok
    /\ event.attempts[3].ok

\* C9: a due refresh whose fetch of the sheet fails leaves self.feeds as it
\* was, and the loop goes on to the sweep or the batch check.
C9_FailedRefreshKeepsFeeds ==
    [][(RefreshStep /\ event'.due /\ event'.status = "error")
       => (feeds' = feeds /\ pc' \in {"sweep", "batch"})]_vars

\* C10: a check whose HTTP fetch fails changes neither last_entries nor
\* pending_entries, and the loop goes on: the feed stays in the list, the
\* sweep moves to the next feed or to the batch check.
C10_FailedFetchChangesNothing ==
    [][(CheckStep /\ event'.fetch # "ok")
       => (/\ last_entries' = last_entries
           /\ pending_entries' = pending_entries
           /\ feeds' = feeds
           /\ is_running' = is_running
           /\ event'.raised = "request"
           /\ pc' = IF idx = Len(feeds) THEN "batch" ELSE "sweep")]_vars

\* a failed fetch of a feed whose identity was stored and whose entry is
\* pending: both are still there
C10_Witness ==
    /\ event.op = "check"
    /\ event.fetch # "ok"
    /\ last_entries[event.feed_url] # Absent
    /\ \E i \in 1..Len(pending_entries) : pending_entries[i].feed_url = event.feed_url

\* C11: once stop_monitoring has cleared is_running the loop begins no
\* iteration; the sleep in progress lasts its full time and leads to the loop
\* test; the thread then ends and the join of stop_monitoring returns.
C11_StopEndsLoopAfterIteration ==
    /\ [][/\ (~is_running /\ pc # "iter") => pc' # "iter"
          /\ (pc = "sleep" /\ pc' # "sleep")
                => (pc' = "top" /\ now' = now + SleepTime(check_interval))
          /\ (pc' = "exited" /\ pc # "exited") => (pc = "top" /\ ~is_running)]_vars
    /\ (main_pc = "joining") ~> (pc = "exited" /\ main_pc = "done")

\* the loop was stopped in the middle of an iteration, slept, and ended; the
\* join has returned
C11_Witness ==
    /\ main_pc = "done"
    /\ pc = "exited"
    /\ event.op = "sleep"
    /\ pending_entries # <<>>

\* C12: an exception raised at the refresh, in the sweep or at the batch
\* check takes the loop to its sleep with the flag as it was; the sleep leads
\* to the loop test, the test to a next iteration while is_running is true,
\* and the thread ends only at a test that finds the flag cleared.
C12_ExceptionNeverEndsLoop ==
    [][/\ (pc \in {"iter", "sweep", "batch"} /\ event'.op = "raise")
             => (/\ pc' = "sleep"
                 /\ UNCHANGED <<is_running, feeds, last_entries, pending_entries>>)
       /\ (pc = "sleep" /\ pc' # "sleep") => pc' = "top"
       /\ (pc = "top" /\ pc' # "top") => pc' = (IF is_running THEN "iter" ELSE "exited")
       /\ (pc' = "exited" /\ pc # "exited") => (pc = "top" /\ ~is_running)]_vars

\* a second iteration begins although the first never reached its refresh:
\* an exception ended it before line 121
C12_Witness ==
    /\ pc = "iter"
    /\ is_running
    /\ last_sheet_check = 0
    /\ now >= StartTime + SleepTime(check_interval)

\* C13: a polling that ends in a read timeout, a connection error or any
\* other exception is followed by the sleep of its handler and by polling
\* again; the listener leaves its loop only on a KeyboardInterrupt.
C13_ListenerRestartsAfterFault ==
    [][/\ (main_pc = "polling" /\ event'.op = "polling" /\ event' # event
              /\ event'.ending \in {"read_timeout", "connection_error",
                                    "unexpected_error"})
             => (/\ main_pc' = "polling"
                 /\ event'.backoff > 0
                 /\ now' = now + event'.backoff)
       /\ (main_pc = "polling" /\ main_pc' # "polling")
             => (event'.op = "polling" /\ event'.ending = "keyboard_interrupt")]_vars

\* the listener is polling again after a connection error that followed
\* earlier faults
C13_Witness ==
    /\ main_pc = "polling"
    /\ event.op = "polling"
    /\ event.ending = "connection_error"
    /\ now > StartTime + CONNECTION_ERROR_BACKOFF + READ_TIMEOUT_BACKOFF

\* C14: the pending batch never holds more than max_batch_size entries.
C14_BatchWithinMaxSize == Len(pending_entries) <= max_batch_size

\* C15: last_entries holds one identity per feed; it changes only in a check
\* of feed F that computed an identity different from the one stored, and
\* then only at F, to that identity; a key is never removed; and a check
\* that computes the stored identity appends nothing, so an entry whose batch
\* was discarded is not offered again while it is the head of its feed.
C15_IndexChangesOnlyInChecks ==
    /\ [](\A f \in FeedUrls : last_entries[f] \in
              {Absent, "id-a", "link-b", "t.me/channel/1", "t.me/channel/2"})
    /\ [][/\ last_entries' # last_entries
                => (/\ pc = "sweep"
                    /\ event'.op = "check"
                    /\ event'.feed_url = feeds[idx]
                    /\ event'.id # Absent
                    /\ event'.id # last_entries[event'.feed_url]
                    /\ last_entries' =
                          [last_entries EXCEPT ![event'.feed_url] = event'.id])
          /\ \A f \in FeedUrls : last_entries[f] # Absent => last_entries'[f] # Absent
          /\ (CheckStep /\ event'.id # Absent
                        /\ event'.id = last_entries[event'.feed_url])
                => (pending_entries' = pending_entries /\ last_entries' = last_entries)]_vars

\* the identity of a feed is still stored after the batch that held its
\* entry was flushed with a failed classification and the feed was dropped
\* by a refresh
C15_Witness ==
    /\ \E f \in FeedUrls :
          /\ last_entries[f] # Absent
          /\ emitted[f] = 1
          /\ \A i \in 1..Len(feeds) : feeds[i] # f
    /\ event.op = "batch"
    /\ event.flushed
    /\ event.status = "request_error"
    /\ pending_entries = <<>>

\* C16: a sweep checks the feeds of self.feeds one at a time from the first
\* to the last: every step taken in the sweep is the check of feeds[idx] and
\* moves to idx + 1, whatever the check ran into; the list does not change
\* under the sweep; the sweep begins at the first feed and ends only after
\* the check of the last one.
C16_SweepChecksEveryFeedInOrder ==
    [][/\ (pc = "sweep" /\ <<pc, idx, event>>' # <<pc, idx, event>>)
             => (/\ idx <= Len(feeds)
                 /\ event'.op = "check"
                 /\ event'.feed_url = feeds[idx]
                 /\ idx' = idx + 1
                 /\ feeds' = feeds
                 /\ pc' = (IF idx = Len(feeds) THEN "batch" ELSE "sweep"))
       /\ (pc # "sweep" /\ pc' = "sweep") => (idx' = 1 /\ feeds' # <<>>)
       /\ (pc = "iter" /\ pc' = "batch") => feeds' = <<>>]_vars

\* in the first iteration the check of the first feed ended in an exception
\* (a head entry without title or link: its identity is stored, no entry was
\* appended) and the second feed was checked after it and gave its entry
C16_Witness ==
    /\ pc = "batch"
    /\ now < StartTime + SleepTime(check_interval)
    /\ Len(feeds) = 2
    /\ idx = 3
    /\ feeds[1] # feeds[2]
    /\ last_entries[feeds[1]] # Absent
    /\ emitted[feeds[1]] = 0
    /\ event.op = "check"
    /\ event.feed_url = feeds[2]
    /\ event.raised = "none"
    /\ pending_entries # <<>>

\* C17: an iteration fetches the feed list if and only if the time since
\* last_sheet_check is at least the refresh interval, and then sets
\* last_sheet_check to the time read; otherwise it leaves self.feeds and
\* last_sheet_check alone; no other step changes either; the first
\* iteration refreshes.
C17_RefreshOnlyWhenDue ==
    [][/\ RefreshStep
             => (/\ event'.op = "refresh"
                 /\ event'.due <=> (now - last_sheet_check >= SHEET_REFRESH_INTERVAL)
                 /\ event'.due => last_sheet_check' = now
                 /\ ~event'.due => UNCHANGED <<feeds, last_sheet_check>>
                 /\ last_sheet_check = 0 => event'.due)
       /\ ~RefreshStep => UNCHANGED <<feeds, last_sheet_check>>]_vars

\* an iteration after the first that did not refresh and kept a non-empty
\* feed list
C17_Witness ==
    /\ event.op = "refresh"
    /\ ~event.due
    /\ feeds # <<>>
    /\ last_sheet_check = StartTime
    /\ now >= StartTime + ShortCheckInterval

\* C18: the file of chat ids never holds a chat twice; it changes only by a
\* registration that appends one chat, a group or supergroup not yet in the
\* file, and every such registration appends it; sending only reads the
\* file; and neither the registration nor the sending touches the state of
\* the monitor.
C18_DestinationsAppendOnly ==
    /\ [](\A i, j \in 1..Len(chat_ids) : chat_ids[i] = chat_ids[j] => i = j)
    /\ [][/\ chat_ids' # chat_ids
                => (/\ event'.op = "collect"
                    /\ event'.chat_type \in {"group", "supergroup"}
                    /\ event'.chat_id \notin Destinations(chat_ids)
                    /\ chat_ids' = Append(chat_ids, event'.chat_id))
          /\ (/\ event'.op = "collect"
              /\ event' # event
              /\ event'.chat_type \in {"group", "supergroup"}
              /\ event'.chat_id \notin Destinations(chat_ids))
                => chat_ids' = Append(chat_ids, event'.chat_id)
          /\ (event'.op = "send" /\ event' # event)
                => (chat_ids' = chat_ids /\ event'.chat_ids = chat_ids)
          /\ UNCHANGED <<is_running, pc, feeds, last_sheet_check, last_entries,
                         pending_entries, last_batch_time>>]_vars

\* a group already in the file registers again, after another one did: the
\* file is as it was
C18_Witness ==
    /\ event.op = "collect"
    /\ event.chat_type = "supergroup"
    /\ Len(chat_ids) >= 2
    /\ chat_ids[1] = event.chat_id

\* C19: with check_interval >= batch_timeout, the entries pending when an
\* iteration begins (appended in the sweep of the iteration before, or
\* earlier) are flushed by the batch check of that iteration: after it none
\* of them is pending.
C19_PendingDrainedNextIteration ==
    [][(BatchStep /\ check_interval >= batch_timeout /\ carried > 0)
          => (event'.flushed /\ pending_entries' = <<>>)]_vars

\* the batch check of the second iteration flushed entries of the first
\* sweep together with entries of the second
C19_Witness ==
    /\ event.op = "batch"
    /\ event.flushed
    /\ pc = "sleep"
    /\ carried > 0
    /\ pending_entries = <<>>
    /\ \E f \in FeedUrls : emitted[f] = 1 /\ last_entries[f] # Absent
    /\ now >= StartTime + SleepTime(check_interval)

\* C20: in every feed check last_entries changes if and only if the check
\* appends exactly one entry, for the feed checked; the index never moves to
\* an identity no entry was queued for.
C20_IndexAdvanceIffEmission ==
    [][CheckStep
          => (/\ Len(pending_entries') - Len(pending_entries) \in {0, 1}
              /\ last_entries' # last_entries
                    <=> (/\ Len(pending_entries') = Len(pending_entries) + 1
                         /\ Last(pending_entries').feed_url = event'.feed_url))]_vars

====
